---- MODULE Spec2Model ----
(***************************************************************************)
(* Course planner of blobcode/utcx: the dependency graph built by          *)
(* graph.py from the course mapping, and plan_course_schedule_cp of        *)
(* pathing.py (relevance pruning, constraint encoding, two-phase solve,    *)
(* schedule reconstruction).                                               *)
(***************************************************************************)
EXTENDS Integers, Sequences, FiniteSets, TLC

\* ------------------------------------------------------------------ bounds
\* Largest max_semesters of a planning request.
MaxTerms == 3
\* Largest max_courses_per_semester of a planning request.
MaxCap == 2

\* ------------------------------------------------------------ course codes
\* Course codes are strings; CodeChars spells each one, so that name[-2]
\* (graph.py) and sorted() (pathing.py) are computed from the characters.
CodeChars ==
  [ AH1 |-> <<"A", "H", "1">>,
    BH1 |-> <<"B", "H", "1">>,
    CH1 |-> <<"C", "H", "1">>,
    DY1 |-> <<"D", "Y", "1">>,
    ZH1 |-> <<"Z", "H", "1">> ]

\* Code points of the characters used, for Python's string comparison.
CharOrd == [ c \in {"1", "A", "B", "C", "D", "H", "Y", "Z"} |->
             CASE c = "1" -> 49 [] c = "A" -> 65 [] c = "B" -> 66
               [] c = "C" -> 67 [] c = "D" -> 68 [] c = "H" -> 72
               [] c = "Y" -> 89 [] OTHER -> 90 ]

\* Semester members of course.py that the graph builder looks at.
FALL == "FALL"
WINTER == "WINTER"
FALL_WINTER == "FALL_WINTER"
SUMMER_1 == "SUMMER_1"

\* ------------------------------------------------------- requirement trees
\* A Python requisite list ['all', 'AH1', ['any', ...]] is Lst(<<Str("all"),
\* Str("AH1"), Lst(<<...>>)>>): element 1 is req_list[0].
Str(s) == [list |-> FALSE, str |-> s, elems |-> <<>>]
Lst(es) == [list |-> TRUE, str |-> "", elems |-> es]

\* Course.__init__: prereq_list = ["all"].
NoPrereq == Lst(<<Str("all")>>)

\* A requisite that is no course of the mapping (a simplified requisite of
\* VALID_REQUISITES).
HS == "High school calculus"

Crs(n, sess, pre) == [name |-> n, sessions |-> sess, prereqs |-> pre]
All2(x, y) == Lst(<<Str("all"), x, y>>)
Any2(x, y) == Lst(<<Str("any"), x, y>>)
One(op, x) == Lst(<<Str(op), x>>)

FW == {FALL, WINTER}

\* The course mappings planned over: each a sequence in the order of the
\* JSON file (dict order of course_list.items()).
DataSets ==
  { \* one course, no prerequisite
    <<Crs("CH1", {FALL}, NoPrereq)>>,
    <<Crs("AH1", FW, NoPrereq), Crs("CH1", {WINTER}, NoPrereq)>>,
    \* AllOf of two short courses
    <<Crs("AH1", FW, NoPrereq), Crs("BH1", FW, NoPrereq),
      Crs("CH1", FW, All2(Str("AH1"), Str("BH1")))>>,
    \* AnyOf with different availability
    <<Crs("AH1", {WINTER}, NoPrereq), Crs("BH1", {FALL}, NoPrereq),
      Crs("CH1", FW, Any2(Str("AH1"), Str("BH1")))>>,
    \* single child: inlined item -> item edge; the dependent listed first
    <<Crs("CH1", FW, One("all", Str("AH1"))), Crs("AH1", FW, NoPrereq)>>,
    \* chain of direct edges
    <<Crs("AH1", FW, NoPrereq), Crs("BH1", {FALL}, One("all", Str("AH1"))),
      Crs("CH1", FW, One("any", Str("BH1")))>>,
    \* year course as prerequisite and as target
    <<Crs("AH1", FW, NoPrereq), Crs("DY1", {FALL_WINTER}, NoPrereq),
      Crs("CH1", FW, All2(Str("DY1"), Str("AH1")))>>,
    <<Crs("AH1", FW, NoPrereq), Crs("BH1", FW, NoPrereq),
      Crs("DY1", {FALL_WINTER}, Any2(Str("AH1"), Str("BH1"))),
      Crs("CH1", FW, One("all", Str("DY1")))>>,
    \* nested lists, a leaf that is no course
    <<Crs("AH1", FW, NoPrereq), Crs("BH1", FW, NoPrereq),
      Crs("CH1", FW, All2(Str("AH1"), Any2(Str("BH1"), Str(HS))))>>,
    <<Crs("AH1", FW, NoPrereq), Crs("BH1", {WINTER}, NoPrereq),
      Crs("DY1", {FALL_WINTER}, NoPrereq),
      Crs("CH1", FW, Any2(Str("DY1"), All2(Str("AH1"), Str("BH1"))))>>,
    \* a list whose leaves are all dropped
    <<Crs("AH1", FW, NoPrereq),
      Crs("CH1", FW, Any2(Str(HS), Str("ZH1")))>>,
    \* a prerequisite offered in no planned semester
    <<Crs("AH1", {SUMMER_1}, NoPrereq),
      Crs("CH1", FW, One("all", Str("AH1")))>>,
    \* a year course as the single prerequisite: a direct edge
    <<Crs("DY1", {FALL_WINTER}, NoPrereq),
      Crs("CH1", FW, One("any", Str("DY1")))>> }


\* ------------------------------------------------------------ graph (networkx)
\* A DiGraph: nodes maps a node id to its attributes, edges lists the edges in
\* insertion order (the order g.predecessors iterates in); uuids are the
\* uuid4().hex[:8] values still to be drawn.
\* A node attribute that was never set reads as the default that every
\* .get(...) of pathing.py gives it: length 0.5 (5 tenths), sessions [].
NodeAttr(logic, type, length, sessions) ==
  [logic |-> logic, type |-> type, length |-> length, sessions |-> sessions]

EmptyGraph(uuids) == [nodes |-> <<>>, edges |-> <<>>, uuids |-> uuids]

has_node(G, n) == n \in DOMAIN G.nodes

\* g.add_node(n, **attr): creates the node or updates its attributes.
add_node(G, n, attr) ==
  [G EXCEPT !.nodes = [m \in (DOMAIN G.nodes) \cup {n} |->
                         IF m = n THEN attr ELSE G.nodes[m]]]

has_edge(G, u, v) == \E i \in 1..Len(G.edges) : G.edges[i] = <<u, v>>

\* g.add_edge(u, v): both ends exist at every call site of graph.py.
add_edge(G, u, v) ==
  IF has_edge(G, u, v) THEN G ELSE [G EXCEPT !.edges = Append(@, <<u, v>>)]

\* g.predecessors(v), in insertion order.
RECURSIVE PredSeq(_, _, _)
PredSeq(edges, v, i) ==
  IF i > Len(edges) THEN <<>>
  ELSE IF edges[i][2] = v THEN <<edges[i][1]>> \o PredSeq(edges, v, i + 1)
       ELSE PredSeq(edges, v, i + 1)

predecessors(G, v) == PredSeq(G.edges, v, 1)

SeqRange(q) == {q[i] : i \in 1..Len(q)}

RECURSIVE parse_requisite_list(_, _, _, _)
RECURSIVE ParseChildren(_, _, _, _)
\* The for loop over the children of a logic node (graph.py 49-56).
ParseChildren(children, v_id, G, data) ==
  IF children = <<>> THEN G
  ELSE LET item == Head(children)
           G1 == IF item.list
                   THEN parse_requisite_list(item, v_id, G, data)
                   ELSE IF item.str \in data
                          THEN add_edge(IF has_node(G, item.str) THEN G
                                        ELSE add_node(G, item.str,
                                               NodeAttr(FALSE, "", 5, {})),
                                        item.str, v_id)
                          ELSE G
       IN ParseChildren(Tail(children), v_id, G1, data)

\* data is the set of keys of the course mapping.
parse_requisite_list(req_list, course_id, G, data) ==
  IF Len(req_list.elems) < 2 THEN G
  ELSE LET op_type == req_list.elems[1].str
           children == Tail(req_list.elems)
       IN IF Len(children) = 1
            THEN LET child == children[1]
                 IN IF child.list
                      THEN parse_requisite_list(child, course_id, G, data)
                      ELSE IF child.str \in data
                             THEN add_edge(IF has_node(G, child.str) THEN G
                                           ELSE add_node(G, child.str,
                                                  NodeAttr(FALSE, "", 5, {})),
                                           child.str, course_id)
                             ELSE G
            ELSE LET v_id == Head(G.uuids)
                     G1 == add_node([G EXCEPT !.uuids = Tail(@)], v_id,
                                    NodeAttr(TRUE, op_type, 5, {}))
                 IN ParseChildren(children, v_id, add_edge(G1, v_id, course_id),
                                  data)

\* name[-2] == "Y"
IsYearCode(name) == CodeChars[name][Len(CodeChars[name]) - 1] = "Y"

allowed_sems == {FALL, WINTER, FALL_WINTER}

RECURSIVE CreateLoop(_, _, _)
\* The loop over course_list.items() (graph.py 73-92).
CreateLoop(course_list, i, G) ==
  IF i > Len(course_list) THEN G
  ELSE LET course == course_list[i]
           name == course.name
           length == IF IsYearCode(name) THEN 10 ELSE 5
           G1 == add_node(G, name,
                          NodeAttr(FALSE, "", length,
                                   course.sessions \cap allowed_sems))
           G2 == IF Len(course.prereqs.elems) > 0
                   THEN parse_requisite_list(course.prereqs, name, G1,
                          {course_list[k].name : k \in 1..Len(course_list)})
                   ELSE G1
       IN CreateLoop(course_list, i + 1, G2)

create_graph_from_courses(course_list, uuids) ==
  CreateLoop(course_list, 1, EmptyGraph(uuids))

\* The identifiers uuid4 can hand out, and the orders it can hand them out in
\* (each draw fresh).
GateIds == {"g1", "g2"}
UuidDraws == {q \in [1..Cardinality(GateIds) -> GateIds] :
                \A i, j \in 1..Len(q) : i # j => q[i] # q[j]}


\* The target lists requested (ZH1 is a code of no course mapping).
TargetLists ==
  { <<>>, <<"CH1">>, <<"DY1">>, <<"ZH1">>, <<"CH1", "CH1">>,
    <<"CH1", "DY1">>, <<"DY1", "CH1">>, <<"AH1", "CH1">>, <<"CH1", "ZH1">> }

\* ------------------------------------------------------------------- state
VARIABLES
  course_list,                  \* the course mapping (merged_course_list)
  g,                            \* the graph built from it (COURSE_GRAPH)
  target_courses,               \* the request
  max_courses_per_semester,
  max_semesters,
  pc,                           \* where plan_course_schedule_cp stands
  relevant_nodes,
  nodes_to_process,             \* deque of the reachability loop
  processed_for_reachability,
  course_nodes,
  logic_nodes,
  processed_edges,
  nodes_to_process_constraints, \* what is left of deque(relevant_nodes)
  processed_nodes_constraints,
  model,                        \* the CpModel: the takes assignments it admits
  status1,
  optimal_time,
  status2,
  takes,                        \* solver.Value(takes[c, s]) after phase 2
  result,                       \* the returned (status, schedule)
  previous,                     \* the call before this one, if any
  prereq_list,                  \* Course.prereq_list of a scraped course
  valid_courses                 \* the codes prune_requisites is given

vars == <<course_list, g, target_courses, max_courses_per_semester, max_semesters, pc,
          relevant_nodes, nodes_to_process, processed_for_reachability,
          course_nodes, logic_nodes, processed_edges,
          nodes_to_process_constraints, processed_nodes_constraints, model,
          status1, optimal_time, status2, takes, result, previous,
          prereq_list, valid_courses>>

request == <<course_list, g, target_courses, max_courses_per_semester,
             max_semesters, previous, prereq_list, valid_courses>>
reach_vars == <<relevant_nodes, nodes_to_process, processed_for_reachability>>
node_sets == <<course_nodes, logic_nodes>>
emit_vars == <<processed_edges, nodes_to_process_constraints,
               processed_nodes_constraints>>
solve_vars == <<model, status1, optimal_time, status2, takes>>

\* The returned pair: has is FALSE when the schedule is None.
Returned(status, has, schedule) ==
  [status |-> status, has |-> has, schedule |-> schedule]
None == <<>>
NotReturned == Returned("", FALSE, None)

\* --------------------------------------------------------- pathing.py 7-27
\* get_semester_type with the parities exchanged.
get_semester_typeOddFall(semester_index) ==
  IF semester_index % 2 = 1 THEN FALL ELSE WINTER

get_semester_type(semester_index) ==
  IF semester_index % 2 = 0 THEN FALL ELSE WINTER

\* is_course_available taking a half-year course as offered in every semester
\* once it has any session.
is_course_availableAnySession(course_info, semester_index) ==
  IF course_info.length = 5 THEN course_info.sessions # {}
  ELSE get_semester_type(semester_index) = FALL

is_course_available(course_info, semester_index) ==
  LET sessions == course_info.sessions
      required_type == get_semester_type(semester_index)
  IN IF course_info.length = 5
       THEN IF required_type = FALL THEN FALL \in sessions
                                    ELSE WINTER \in sessions
       ELSE IF course_info.length = 10 THEN required_type = FALL
            ELSE FALSE     \* falls off the end: None

\* ------------------------------------------------ the constraints (75-236)
Semesters == 0 .. max_semesters - 1

IsLogic(n) == g.nodes[n].logic

\* 2 if info.get("length", 0.5) == 1.0 else 1
LengthSemesters(n) == IF g.nodes[n].length = 10 THEN 2 ELSE 1

NumTrue(row) == Cardinality({s \in DOMAIN row : row[s]})

\* TakesOnce with AddAtMostOne used for the targets too.
TakesOnceAtMost(c, row) == NumTrue(row) <= 1

\* AddExactlyOne / AddAtMostOne over the semesters of course c (86-90).
TakesOnce(c, row) ==
  IF c \in SeqRange(target_courses) THEN NumTrue(row) = 1
                                    ELSE NumTrue(row) <= 1

\* StartAllowed without the rule for the last semester (100-101).
StartAllowedNoFinalRule(c, s) == is_course_available(g.nodes[c], s)

\* takes forced to 0 (92-101).
StartAllowed(c, s) ==
  /\ is_course_available(g.nodes[c], s)
  /\ ~(LengthSemesters(c) = 2 /\ s = max_semesters - 1)

\* The rows takes[c, .] that the constraints on c alone admit.
Rows(c) ==
  {row \in [Semesters -> BOOLEAN] :
     /\ TakesOnce(c, row)
     /\ \A s \in Semesters : row[s] => StartAllowed(c, s)}

\* All takes matrices whose rows are admitted: [c |-> row].
RECURSIVE RowProduct(_)
RowProduct(C) ==
  IF C = {} THEN {<<>>}
  ELSE LET c == CHOOSE x \in C : TRUE
       IN {(c :> row) @@ rest : row \in Rows(c), rest \in RowProduct(C \ {c})}

\* ValidStarts with the length of the prerequisite forgotten.
ValidStartsNoLength(u, s_v) == 0 .. s_v - 1

\* The semesters s_u < s_v with s_u + len(u) <= s_v (134-138, 175-179).
ValidStarts(u, s_v) ==
  {s_u \in 0 .. s_v - 1 : s_u + LengthSemesters(u) <= s_v}

\* pred_done_by_s: AddMaxEquality over the possible starts, 0 without any.
DoneBy(t, pred, s_v) == \E s_p \in ValidStarts(pred, s_v) : t[pred][s_p]

\* [p for p in g.predecessors(v) if p in relevant_nodes]
RelevantPreds(v) == {p \in SeqRange(predecessors(g, v)) : p \in relevant_nodes}

\* GateAt with the constraint active => OR(children) alone for an 'any'
\* node.
GateAtAnyOneWay(v, s_v, t, act) ==
  LET preds == RelevantPreds(v)
      done(p) == IF IsLogic(p) THEN act[p] ELSE DoneBy(t, p, s_v)
      v_type == g.nodes[v].type
  IN IF preds = {} THEN act[v]
     ELSE IF v_type = "all"
       THEN /\ act[v] => \A p \in preds : done(p)
            /\ \A p \in preds : ~done(p) => ~act[v]
     ELSE IF v_type = "any"
       THEN act[v] => \E p \in preds : done(p)
     ELSE ~act[v]

\* The constraints on active[v, s_v] of a logic node v (151-209); act holds
\* the values active[., s_v].
GateAt(v, s_v, t, act) ==
  LET preds == RelevantPreds(v)
      done(p) == IF IsLogic(p) THEN act[p] ELSE DoneBy(t, p, s_v)
      v_type == g.nodes[v].type
  IN IF preds = {} THEN act[v]
     ELSE IF v_type = "all"
       THEN /\ act[v] => \A p \in preds : done(p)
            /\ \A p \in preds : ~done(p) => ~act[v]
     ELSE IF v_type = "any"
       THEN /\ act[v] => \E p \in preds : done(p)
            /\ \A p \in preds : done(p) => act[v]
            /\ ~act[v] => \A p \in preds : ~done(p)
     ELSE ~act[v]

\* EdgeAt emitting nothing for a course v at a semester before which the
\* course u cannot have ended.
EdgeAtSkipEmpty(u, v, s_v, t, act) ==
  IF ~IsLogic(v)
    THEN IF s_v >= max_semesters THEN TRUE
         ELSE IF ~IsLogic(u)
           THEN IF ValidStarts(u, s_v) # {}
                  THEN t[v][s_v] => DoneBy(t, u, s_v)
                  ELSE TRUE
           ELSE t[v][s_v] => act[u]
    ELSE GateAt(v, s_v, t, act)

\* The constraints emitted for edge (u, v) that mention semester s_v.
EdgeAt(u, v, s_v, t, act) ==
  IF ~IsLogic(v)
    THEN IF s_v >= max_semesters THEN TRUE
         ELSE IF ~IsLogic(u)
           THEN IF ValidStarts(u, s_v) # {}
                  THEN t[v][s_v] => DoneBy(t, u, s_v)
                  ELSE ~t[v][s_v]
           ELSE t[v][s_v] => act[u]
    ELSE GateAt(v, s_v, t, act)

\* Capacity counting the courses started in s only.
CapacityStartsOnly(t) ==
  \A s \in Semesters :
    Cardinality({c \in course_nodes : t[c][s]}) <= max_courses_per_semester

\* Max active courses (211-220).
Capacity(t) ==
  \A s \in Semesters :
    Cardinality({c \in course_nodes : t[c][s]})
    + Cardinality({c \in course_nodes :
                     s > 0 /\ g.nodes[c].length = 10 /\ t[c][s - 1]})
      <= max_courses_per_semester

\* A takes matrix is admitted when the active variables can be set so that
\* every emitted constraint holds; each constraint mentions active at one
\* semester only, so the values are chosen semester by semester.
Admitted(t) ==
  /\ Capacity(t)
  /\ \A s_v \in 0 .. max_semesters :
       \E act \in [logic_nodes -> BOOLEAN] :
         \A e \in processed_edges : EdgeAt(e[1], e[2], s_v, t, act)

BuiltModel == {t \in RowProduct(course_nodes) : Admitted(t)}

Max(S) == CHOOSE x \in S : \A y \in S : y <= x
Min(S) == CHOOSE x \in S : \A y \in S : x <= y

\* The least value max_finish_semester can take with takes = t (223-234).
FinishOf(t) ==
  Max({0} \cup {s + LengthSemesters(c) - 1 : <<c, s>> \in
         {cs \in course_nodes \X Semesters :
            t[cs[1]][cs[2]]
            /\ cs[2] + LengthSemesters(cs[1]) - 1 < max_semesters}})

\* sum(total_courses_taken_vars)
TotalTaken(t) == Cardinality({cs \in course_nodes \X Semesters : t[cs[1]][cs[2]]})


\* ------------------------------------------------------- CpSolver.Solve
\* The statuses of cp_model that the caller tells apart.
OPTIMAL == "OPTIMAL"
FEASIBLE == "FEASIBLE"
INFEASIBLE == "INFEASIBLE"
UNKNOWN == "UNKNOWN"

\* What Solve may answer on a model admitting the assignments M: INFEASIBLE
\* only when there is none, OPTIMAL or FEASIBLE only when there is one,
\* UNKNOWN when the search was stopped before either was established.
SolverStatuses(M) ==
  IF M = {} THEN {INFEASIBLE, UNKNOWN} ELSE {OPTIMAL, FEASIBLE, UNKNOWN}

\* ObjectiveValues1 reading solver.BestObjectiveBound(), a lower bound of the
\* objective that no assignment need attain.
ObjectiveValues1Bound(M, st) ==
  IF st = OPTIMAL THEN {Min({FinishOf(t) : t \in M})}
  ELSE 0 .. Min({FinishOf(t) : t \in M})

\* ObjectiveValues1 of a model that maximizes max_finish_semester.
ObjectiveValues1Maximize(M, st) ==
  IF st = OPTIMAL THEN {max_semesters - 1}
  ELSE {mf \in Semesters : \E t \in M : FinishOf(t) <= mf}

\* solver.ObjectiveValue() after phase 1: the least max_finish_semester when
\* OPTIMAL, the max_finish_semester of some admitted assignment when FEASIBLE.
ObjectiveValues1(M, st) ==
  IF st = OPTIMAL THEN {Min({FinishOf(t) : t \in M})}
  ELSE {mf \in Semesters : \E t \in M : FinishOf(t) <= mf}

\* The assignments Solve may leave in the solver after phase 2.
Solutions2(M, st) ==
  IF st = OPTIMAL
    THEN {t \in M : \A t2 \in M : TotalTaken(t) <= TotalTaken(t2)}
    ELSE M

\* ------------------------------------------------ reconstruction (290-327)
RECURSIVE StrLessFrom(_, _, _)
StrLessFrom(a, b, i) ==
  IF i > Len(b) THEN FALSE
  ELSE IF i > Len(a) THEN TRUE
  ELSE IF CharOrd[a[i]] # CharOrd[b[i]] THEN CharOrd[a[i]] < CharOrd[b[i]]
  ELSE StrLessFrom(a, b, i + 1)

\* Python's a < b on course codes.
StrLess(a, b) == StrLessFrom(CodeChars[a], CodeChars[b], 1)

RECURSIVE Insert(_, _)
Insert(q, x) ==
  IF q = <<>> THEN <<x>>
  ELSE IF StrLess(x, Head(q)) THEN <<x>> \o q
  ELSE <<Head(q)>> \o Insert(Tail(q), x)

\* sorted leaving the list in the order it was filled in.
sortedAsFilled(q) == q

RECURSIVE sorted(_)
sorted(q) == IF q = <<>> THEN <<>> ELSE Insert(sorted(Tail(q)), Head(q))

RECURSIVE SetToSeq(_)
SetToSeq(S) ==
  IF S = {} THEN <<>>
  ELSE LET x == CHOOSE y \in S : TRUE IN <<x>> \o SetToSeq(S \ {x})

\* schedule_display[s] after the loops of 302-314: the second halves of the
\* year courses started at s - 1, then the courses started at s.
schedule_display(t, s) ==
  SetToSeq({c \in course_nodes :
              s > 0 /\ t[c][s - 1] /\ LengthSemesters(c) = 2
              /\ s < max_semesters})
  \o SetToSeq({c \in course_nodes : s \in Semesters /\ t[c][s]})

\* actual_max_finish_sem (300-317)
actual_max_finish_sem(t) ==
  Max({0} \cup {cs[2] + LengthSemesters(cs[1]) - 1 :
                  cs \in {x \in course_nodes \X Semesters : t[x[1]][x[2]]}})

final_schedule_display(t) ==
  [sem \in {s \in 0 .. max_semesters :
              s <= actual_max_finish_sem(t) /\ schedule_display(t, s) # <<>>}
     |-> sorted(schedule_display(t, sem))]

\* -------------------------------------------------------------------- Init
NoPrevious ==
  [called |-> FALSE, result |-> NotReturned, status1 |-> "",
   optimal_time |-> -1, max_semesters |-> 0, max_courses_per_semester |-> 0]

Init ==
  \E data \in DataSets, uuids \in UuidDraws, targets \in TargetLists,
     cap \in 1 .. MaxCap, terms \in 1 .. MaxTerms :
    /\ course_list = data
    /\ g = LET G == create_graph_from_courses(data, uuids)
           IN [nodes |-> G.nodes, edges |-> G.edges]
    /\ previous = NoPrevious
    /\ prereq_list = NoPrereq /\ valid_courses = {}
    /\ target_courses = targets
    /\ max_courses_per_semester = cap
    /\ max_semesters = terms
    /\ pc = "call"
    /\ relevant_nodes = {}
    /\ nodes_to_process = <<>>
    /\ processed_for_reachability = {}
    /\ course_nodes = {}
    /\ logic_nodes = {}
    /\ processed_edges = {}
    /\ nodes_to_process_constraints = {}
    /\ processed_nodes_constraints = {}
    /\ model = {}
    /\ status1 = ""
    /\ optimal_time = -1
    /\ status2 = ""
    /\ takes = <<>>
    /\ result = NotReturned

\* ------------------------------------------- plan_course_schedule_cp, steps
Return(status, has, schedule) ==
  /\ result' = Returned(status, has, schedule)
  /\ pc' = "done"

\* CheckTargets returning the error only when no target is a node.
CheckTargetsNoneInGraph ==
  /\ pc = "call"
  /\ IF /\ target_courses # <<>>
        /\ \A i \in 1 .. Len(target_courses) : ~has_node(g, target_courses[i])
       THEN /\ Return("Error: Target not in graph", FALSE, None)
            /\ UNCHANGED reach_vars
       ELSE /\ nodes_to_process' = target_courses
            /\ relevant_nodes' = {}
            /\ processed_for_reachability' = {}
            /\ pc' = "reach"
            /\ UNCHANGED result
  /\ UNCHANGED <<request, node_sets, emit_vars, solve_vars>>

\* 42-49: every target must be a node; then the reachability deque is set up.
CheckTargets ==
  /\ pc = "call"
  /\ IF \E i \in 1 .. Len(target_courses) : ~has_node(g, target_courses[i])
       THEN /\ Return("Error: Target not in graph", FALSE, None)
            /\ UNCHANGED reach_vars
       ELSE /\ nodes_to_process' = target_courses
            /\ relevant_nodes' = {}
            /\ processed_for_reachability' = {}
            /\ pc' = "reach"
            /\ UNCHANGED result
  /\ UNCHANGED <<request, node_sets, emit_vars, solve_vars>>

\* Unprocessed keeping the first predecessor only.
UnprocessedHeadOnly(q, processed) ==
  IF q = <<>> THEN <<>>
  ELSE IF Head(q) \notin processed THEN <<Head(q)>> ELSE <<>>

\* The predecessors appended to the deque at 59-61.
RECURSIVE Unprocessed(_, _)
Unprocessed(q, processed) ==
  IF q = <<>> THEN <<>>
  ELSE IF Head(q) \notin processed
         THEN <<Head(q)>> \o Unprocessed(Tail(q), processed)
         ELSE Unprocessed(Tail(q), processed)

\* ReachStep on a deque that is the caller's list itself, not a copy of it:
\* what popleft and append do to the deque they do to target_courses.
ReachStepOnCallersList ==
  /\ pc = "reach"
  /\ nodes_to_process # <<>>
  /\ LET current_node_id == Head(nodes_to_process)
     IN IF \/ current_node_id \in processed_for_reachability
           \/ ~has_node(g, current_node_id)
          THEN /\ nodes_to_process' = Tail(nodes_to_process)
               /\ UNCHANGED <<relevant_nodes, processed_for_reachability>>
          ELSE /\ processed_for_reachability' =
                    processed_for_reachability \cup {current_node_id}
               /\ relevant_nodes' = relevant_nodes \cup {current_node_id}
               /\ nodes_to_process' =
                    Tail(nodes_to_process)
                    \o Unprocessed(predecessors(g, current_node_id),
                                   processed_for_reachability')
  /\ target_courses' = nodes_to_process'
  /\ UNCHANGED <<course_list, g, max_courses_per_semester, max_semesters,
                 previous, prereq_list, valid_courses, pc, node_sets,
                 emit_vars, solve_vars, result>>

\* 50-61: one turn of the reachability loop.
ReachStep ==
  /\ pc = "reach"
  /\ nodes_to_process # <<>>
  /\ LET current_node_id == Head(nodes_to_process)
     IN IF \/ current_node_id \in processed_for_reachability
           \/ ~has_node(g, current_node_id)
          THEN /\ nodes_to_process' = Tail(nodes_to_process)
               /\ UNCHANGED <<relevant_nodes, processed_for_reachability>>
          ELSE /\ processed_for_reachability' =
                    processed_for_reachability \cup {current_node_id}
               /\ relevant_nodes' = relevant_nodes \cup {current_node_id}
               /\ nodes_to_process' =
                    Tail(nodes_to_process)
                    \o Unprocessed(predecessors(g, current_node_id),
                                   processed_for_reachability')
  /\ UNCHANGED <<request, pc, node_sets, emit_vars, solve_vars, result>>

\* 63-105: the loop has ended; the node sets, the variables and the
\* constraints on single courses are made, the constraint deque is set up.
Partition ==
  /\ pc = "reach"
  /\ nodes_to_process = <<>>
  /\ LET relevant == IF relevant_nodes = {}
                       THEN {t \in SeqRange(target_courses) : has_node(g, t)}
                       ELSE relevant_nodes
     IN IF relevant = {}
          THEN /\ Return("Error: No relevant nodes", FALSE, None)
               /\ UNCHANGED <<relevant_nodes, node_sets, emit_vars>>
          ELSE /\ relevant_nodes' = relevant
               /\ course_nodes' = {n \in relevant : ~g.nodes[n].logic}
               /\ logic_nodes' = {n \in relevant : g.nodes[n].logic}
               /\ processed_edges' = {}
               /\ nodes_to_process_constraints' = relevant
               /\ processed_nodes_constraints' = {}
               /\ pc' = "emit"
               /\ UNCHANGED result
  /\ UNCHANGED <<request, nodes_to_process, processed_for_reachability,
                 solve_vars>>

\* EmitStep skipping an edge whose source has had its turn already.
EmitStepSkipProcessedSource ==
  /\ pc = "emit"
  /\ \E v \in nodes_to_process_constraints :
       /\ nodes_to_process_constraints' = nodes_to_process_constraints \ {v}
       /\ processed_nodes_constraints' = processed_nodes_constraints \cup {v}
       /\ processed_edges' =
            IF v \in processed_nodes_constraints THEN processed_edges
            ELSE processed_edges
                 \cup {<<u, v>> : u \in RelevantPreds(v)
                                      \ processed_nodes_constraints'}
  /\ UNCHANGED <<request, pc, reach_vars, node_sets, solve_vars, result>>

\* 107-209: one turn of the constraint loop: node v leaves the deque (a set
\* in iteration order, so any remaining node may be next) and the constraints
\* of each of its relevant incoming edges are emitted.
EmitStep ==
  /\ pc = "emit"
  /\ \E v \in nodes_to_process_constraints :
       /\ nodes_to_process_constraints' = nodes_to_process_constraints \ {v}
       /\ processed_nodes_constraints' = processed_nodes_constraints \cup {v}
       /\ processed_edges' =
            IF v \in processed_nodes_constraints THEN processed_edges
            ELSE processed_edges \cup {<<u, v>> : u \in RelevantPreds(v)}
  /\ UNCHANGED <<request, pc, reach_vars, node_sets, solve_vars, result>>

\* What phase 1 returns when it found no solution (251-256).
Phase1Failure(st) ==
  IF st = INFEASIBLE THEN Returned("Infeasible", FALSE, None)
  ELSE Returned("Unknown or Error (" \o st \o ")", FALSE, None)

\* 211-261: capacity and objective are added, phase 1 is solved.
\* (259-261, "Error: Phase 1 Failed", needs ObjectiveValue to raise after a
\* solution was found, which it does not.)
SolvePhase1 ==
  /\ pc = "emit"
  /\ nodes_to_process_constraints = {}
  /\ LET M == BuiltModel
     IN /\ model' = M
        /\ \E st \in SolverStatuses(M) :
             /\ status1' = st
             /\ IF st = OPTIMAL \/ st = FEASIBLE
                  THEN /\ \E v \in ObjectiveValues1(M, st) : optimal_time' = v
                       /\ pc' = "phase2"
                       /\ UNCHANGED result
                  ELSE /\ result' = Phase1Failure(st)
                       /\ pc' = "done"
                       /\ UNCHANGED optimal_time
  /\ UNCHANGED <<request, reach_vars, node_sets, emit_vars, status2, takes>>

\* Phase2Return building the schedule for OPTIMAL only.
Phase2ReturnOptimalOnly(st, t) ==
  IF st = OPTIMAL THEN Returned("Optimal", TRUE, final_schedule_display(t))
  ELSE IF st = FEASIBLE THEN Returned("Feasible", FALSE, None)
  ELSE IF st = INFEASIBLE
    THEN Returned("Error - Infeasible Phase 2", FALSE, None)
  ELSE Returned("Unknown or Error (" \o st \o ")", FALSE, None)

\* What the call returns after phase 2 ended with status st and values t
\* (273-329).
Phase2Return(st, t) ==
  IF st = OPTIMAL THEN Returned("Optimal", TRUE, final_schedule_display(t))
  ELSE IF st = FEASIBLE
    THEN Returned("Feasible", TRUE, final_schedule_display(t))
  ELSE IF st = INFEASIBLE
    THEN Returned("Error - Infeasible Phase 2", FALSE, None)
  ELSE Returned("Unknown or Error (" \o st \o ")", FALSE, None)

\* 262-329: the bound is added, phase 2 is solved, the schedule is built.
SolvePhase2 ==
  /\ pc = "phase2"
  /\ LET M == {t \in model : FinishOf(t) <= optimal_time}
     IN /\ model' = M
        /\ \E st \in SolverStatuses(M) :
             /\ status2' = st
             /\ \E t \in IF st = OPTIMAL \/ st = FEASIBLE
                            THEN Solutions2(M, st) ELSE {takes} :
                  /\ takes' = t
                  /\ result' = Phase2Return(st, t)
                  /\ pc' = "done"
  /\ UNCHANGED <<request, reach_vars, node_sets, emit_vars, status1,
                 optimal_time>>

\* The locals of a call of plan_course_schedule_cp are fresh.
FreshCall ==
  /\ pc' = "call"
  /\ relevant_nodes' = {}
  /\ nodes_to_process' = <<>>
  /\ processed_for_reachability' = {}
  /\ course_nodes' = {}
  /\ logic_nodes' = {}
  /\ processed_edges' = {}
  /\ nodes_to_process_constraints' = {}
  /\ processed_nodes_constraints' = {}
  /\ model' = {}
  /\ status1' = ""
  /\ optimal_time' = -1
  /\ status2' = ""
  /\ takes' = <<>>
  /\ result' = NotReturned

\* app.py 107-112: the identical planning request is made again on the same
\* COURSE_GRAPH; previous keeps what the first call returned.
Rerun ==
  /\ pc = "done"
  /\ ~previous.called
  /\ previous' = [called |-> TRUE, result |-> result, status1 |-> status1,
                  optimal_time |-> optimal_time,
                  max_semesters |-> max_semesters,
                  max_courses_per_semester |-> max_courses_per_semester,
                  relevant_nodes |-> relevant_nodes,
                  processed_edges |-> processed_edges,
                  status2 |-> status2,
                  model |-> model]
  /\ FreshCall
  /\ UNCHANGED <<course_list, g, target_courses, max_courses_per_semester,
                 max_semesters, prereq_list, valid_courses>>

\* app.py 107-112: after a call that returned a schedule, the next planning
\* request on the same COURSE_GRAPH, for the same targets with limits at least
\* as large; previous keeps whether phase 1 of the first call was proved
\* optimal, and its value.
Replan ==
  /\ pc = "done"
  /\ ~previous.called
  /\ result.has
  /\ \E cap \in max_courses_per_semester .. MaxCap,
        terms \in max_semesters .. MaxTerms :
       /\ max_courses_per_semester' = cap
       /\ max_semesters' = terms
  /\ previous' = [called |-> TRUE,
                  result |-> Returned("", TRUE, None),
                  status1 |-> status1,
                  optimal_time |-> optimal_time,
                  max_semesters |-> max_semesters,
                  max_courses_per_semester |-> max_courses_per_semester]
  /\ FreshCall
  /\ UNCHANGED <<course_list, g, target_courses, prereq_list, valid_courses>>

Next ==
  \/ CheckTargets
  \/ ReachStep
  \/ Partition
  \/ EmitStep
  \/ SolvePhase1
  \/ SolvePhase2

Spec == Init /\ [][Next]_vars

\* Two planning requests in a row, for target lists of one or two courses:
\* the second with limits at least as large (SpecReplan), or identical
\* (SpecRerun).
InitReplan == Init /\ target_courses \in {<<"CH1">>, <<"DY1", "CH1">>}

SpecReplan == InitReplan /\ [][Next \/ Replan]_vars

SpecRerun == InitReplan /\ [][Next \/ Rerun]_vars

\* ------------------------------------------------ any input, any exception
\* A node whose attributes other than logic were never set: every .get of
\* pathing.py reads its default (no type, length 0.5, no sessions).
StripAttributes(G, n) ==
  [G EXCEPT !.nodes[n] = NodeAttr(G.nodes[n].logic, "", 5, {})]

\* The locals of a call that has not started.
LocalsFresh ==
  /\ pc = "call"
  /\ relevant_nodes = {} /\ nodes_to_process = <<>>
  /\ processed_for_reachability = {}
  /\ course_nodes = {} /\ logic_nodes = {}
  /\ processed_edges = {} /\ nodes_to_process_constraints = {}
  /\ processed_nodes_constraints = {}
  /\ model = {} /\ status1 = "" /\ optimal_time = -1 /\ status2 = ""
  /\ takes = <<>> /\ result = NotReturned

\* The calls of plan_course_schedule_cp itself, whatever its caller checked:
\* max_semesters may be 0, the target list empty, a node of the graph without
\* its attributes (over the course mappings of at most three courses).
InitAnyInput ==
  \E data \in {d \in DataSets : Len(d) <= 3}, uuids \in UuidDraws,
     targets \in {<<>>, <<"CH1">>, <<"CH1", "ZH1">>},
     cap \in {MaxCap}, terms \in 0 .. MaxTerms :
    LET G == create_graph_from_courses(data, uuids)
    IN \E bare \in (DOMAIN G.nodes) \cup {""} :
         /\ course_list = data
         /\ g = LET H == IF bare = "" THEN G ELSE StripAttributes(G, bare)
                IN [nodes |-> H.nodes, edges |-> H.edges]
         /\ previous = NoPrevious
         /\ prereq_list = NoPrereq /\ valid_courses = {}
         /\ target_courses = targets
         /\ max_courses_per_semester = cap
         /\ max_semesters = terms
         /\ LocalsFresh

\* Except with a handler for RuntimeError only (as the one of 245-249): any
\* other exception leaves the call.
ExceptRuntimeErrorOnly ==
  /\ pc \in {"emit", "phase2"}
  /\ pc = "emit" => nodes_to_process_constraints = {}
  /\ pc' = "raised"
  /\ UNCHANGED <<request, reach_vars, node_sets, emit_vars, solve_vars,
                 result>>

\* 41, 241, 271, 331-333: solver.Solve(model) of phase 1 or phase 2 raises;
\* the handler of the try block, which holds the whole body, returns
\* ("Error", None).
Except ==
  /\ pc \in {"emit", "phase2"}
  /\ pc = "emit" => nodes_to_process_constraints = {}
  /\ Return("Error", FALSE, None)
  /\ UNCHANGED <<request, reach_vars, node_sets, emit_vars, solve_vars>>

\* 244-249, 259-261: phase 1 found a solution and solver.ObjectiveValue()
\* raises RuntimeError; optimal_time stays -1 and the call returns
\* "Error: Phase 1 Failed".
ObjectiveValueRaises ==
  /\ pc = "emit"
  /\ nodes_to_process_constraints = {}
  /\ LET M == BuiltModel
     IN M # {} /\ model' = M
  /\ \E st \in {OPTIMAL, FEASIBLE} : status1' = st
  /\ Return("Error: Phase 1 Failed", FALSE, None)
  /\ UNCHANGED <<request, reach_vars, node_sets, emit_vars, optimal_time,
                 status2, takes>>

NextAnyInput == Next \/ Except \/ ObjectiveValueRaises

\* Every step of the call is eventually taken: the loops of 50-61 and 107-209
\* run to their end and Solve returns.
SpecAnyInput ==
  InitAnyInput /\ [][NextAnyInput]_vars /\ WF_vars(NextAnyInput)

\* -------------------------------------------------- uuid4().hex[:8] draws
\* uuid4 is random: nothing in graph.py keeps two draws of one build apart,
\* so a draw may repeat an earlier one.
AnyUuidDraws == [1 .. Cardinality(GateIds) -> GateIds]

\* A planning call on a graph built with any draws.
InitAnyDraw ==
  \E data \in DataSets, uuids \in AnyUuidDraws,
     cap \in 1 .. MaxCap, terms \in 1 .. MaxTerms :
    /\ course_list = data
    /\ g = LET G == create_graph_from_courses(data, uuids)
           IN [nodes |-> G.nodes, edges |-> G.edges]
    /\ previous = NoPrevious
    /\ prereq_list = NoPrereq /\ valid_courses = {}
    /\ target_courses = <<"CH1">>
    /\ max_courses_per_semester = cap
    /\ max_semesters = terms
    /\ LocalsFresh

SpecAnyDraw == InitAnyDraw /\ [][Next]_vars

\* ------------------------------------------------- prerequisite cycles
\* Course mappings whose prerequisites are circular: create_graph_from_courses
\* adds the edges as listed, so the graph has the cycle.
CyclicDataSets ==
  { \* a course that lists itself
    <<Crs("CH1", FW, One("all", Str("CH1")))>>,
    \* two courses that list each other
    <<Crs("AH1", FW, One("all", Str("CH1"))),
      Crs("CH1", FW, One("any", Str("AH1")))>>,
    \* a year course and a course that list each other
    <<Crs("DY1", {FALL_WINTER}, One("all", Str("CH1"))),
      Crs("CH1", FW, One("all", Str("DY1"))),
      Crs("AH1", FW, NoPrereq)>>,
    \* a cycle of three courses
    <<Crs("AH1", FW, One("all", Str("BH1"))),
      Crs("BH1", FW, One("all", Str("CH1"))),
      Crs("CH1", FW, One("all", Str("AH1")))>>,
    \* a cycle through an 'any' gate that has another child
    <<Crs("AH1", FW, One("all", Str("CH1"))), Crs("BH1", FW, NoPrereq),
      Crs("CH1", FW, Any2(Str("AH1"), Str("BH1")))>>,
    \* a cycle through an 'all' gate
    <<Crs("AH1", FW, One("all", Str("CH1"))), Crs("BH1", FW, NoPrereq),
      Crs("CH1", FW, All2(Str("AH1"), Str("BH1")))>>,
    \* a course that lists itself, below an 'any' gate with another child
    <<Crs("AH1", FW, One("all", Str("AH1"))), Crs("BH1", FW, NoPrereq),
      Crs("CH1", FW, Any2(Str("AH1"), Str("BH1")))>> }

InitCyclic ==
  \E data \in CyclicDataSets, uuids \in UuidDraws,
     targets \in {<<"CH1">>, <<"AH1">>, <<"AH1", "CH1">>, <<"DY1">>},
     cap \in 1 .. MaxCap, terms \in 1 .. MaxTerms :
    /\ course_list = data
    /\ g = LET G == create_graph_from_courses(data, uuids)
           IN [nodes |-> G.nodes, edges |-> G.edges]
    /\ previous = NoPrevious
    /\ prereq_list = NoPrereq /\ valid_courses = {}
    /\ target_courses = targets
    /\ max_courses_per_semester = cap
    /\ max_semesters = terms
    /\ LocalsFresh

\* A call runs on: each loop turn and each solve that can be taken is taken.
SpecCyclic == InitCyclic /\ [][Next]_vars /\ WF_vars(Next)

\* ------------------------------ course.py, filter_requisites.py: pruning
\* The keys of the dict VALID_REQUISITES that the requisite lists pruned here
\* can hold ("requisite in VALID_REQUISITES" tests the keys).
FYC == "First-year Calculus"
VALID_REQUISITES == {"High school level calculus", FYC}

\* requisites.pop(idx), idx counted from 0
pop(requisites, idx) ==
  SubSeq(requisites, 1, idx) \o SubSeq(requisites, idx + 2, Len(requisites))

\* PruneLoop without the removal of the lists left with an operator alone.
RECURSIVE PruneLoopKeepOrphans(_, _, _)
PruneLoopKeepOrphans(requisites, idx, valid) ==
  IF ~(Len(requisites) > idx) THEN requisites
  ELSE LET requisite == requisites[idx + 1]
       IN IF ~requisite.list /\ requisite.str \in {"any", "all"}
            THEN PruneLoopKeepOrphans(requisites, idx + 1, valid)
          ELSE IF ~requisite.list
            THEN IF requisite.str \in VALID_REQUISITES \/ requisite.str \in valid
                   THEN PruneLoopKeepOrphans(requisites, idx + 1, valid)
                   ELSE PruneLoopKeepOrphans(pop(requisites, idx), idx, valid)
          ELSE LET pruned == PruneLoopKeepOrphans(requisite.elems, 0, valid)
               IN PruneLoopKeepOrphans(
                    [requisites EXCEPT ![idx + 1] = Lst(pruned)],
                    idx + 1, valid)

\* The while loop of prune_requisites_recursive from index idx on; a nested
\* list is pruned in place by the recursive call.
RECURSIVE PruneLoop(_, _, _)
PruneLoop(requisites, idx, valid) ==
  IF ~(Len(requisites) > idx) THEN requisites
  ELSE LET requisite == requisites[idx + 1]
       IN IF ~requisite.list /\ requisite.str \in {"any", "all"}
            THEN PruneLoop(requisites, idx + 1, valid)
          ELSE IF ~requisite.list
            THEN IF requisite.str \in VALID_REQUISITES \/ requisite.str \in valid
                   THEN PruneLoop(requisites, idx + 1, valid)
                   ELSE PruneLoop(pop(requisites, idx), idx, valid)
          ELSE LET pruned == PruneLoop(requisite.elems, 0, valid)
               IN IF Len(pruned) <= 1
                    THEN PruneLoop(pop(requisites, idx), idx, valid)
                    ELSE PruneLoop([requisites EXCEPT ![idx + 1] = Lst(pruned)],
                                   idx + 1, valid)

prune_requisites_recursive(requisites, valid) == PruneLoop(requisites, 0, valid)

\* Course.prune_requisites on the prerequisites of the course.
prune_requisites ==
  /\ pc = "prune"
  /\ prereq_list' =
       Lst(prune_requisites_recursive(prereq_list.elems, valid_courses))
  /\ pc' = "pruned"
  /\ UNCHANGED <<course_list, g, target_courses, max_courses_per_semester,
                 max_semesters, previous, valid_courses, reach_vars,
                 node_sets, emit_vars, solve_vars, result>>

\* The requisite lists pruned: leaves that are a course that may be valid, a
\* string that is never valid, a simplified requisite and a key of
\* VALID_REQUISITES; lists of an operator and up to two children, nested up
\* to three deep.
RawLeaves == {Str("AH1"), Str("ZH1"), Str(HS), Str(FYC)}

ChildLists(E) ==
  {<<>>} \cup {<<x>> : x \in E} \cup {<<x, y>> : x \in E, y \in E}

ListsOver(E) ==
  {Lst(<<Str(op)>> \o q) : op \in {"all", "any"}, q \in ChildLists(E)}

RawLists ==
  LET inner == ListsOver(RawLeaves)
      middle == ListsOver(RawLeaves \cup inner)
  IN {Lst(<<Str("all")>> \o q) :
        q \in {<<>>} \cup {<<x>> : x \in middle}
              \cup {<<x, y>> : x \in middle, y \in RawLeaves}
              \cup {<<y, x>> : x \in inner, y \in RawLeaves}}

InitPrune ==
  /\ prereq_list \in RawLists
  /\ valid_courses \in SUBSET {"AH1"}
  /\ pc = "prune"
  /\ course_list = <<>>
  /\ g = [nodes |-> <<>>, edges |-> <<>>]
  /\ previous = NoPrevious
  /\ target_courses = <<>>
  /\ max_courses_per_semester = 1
  /\ max_semesters = 1
  /\ relevant_nodes = {} /\ nodes_to_process = <<>>
  /\ processed_for_reachability = {}
  /\ course_nodes = {} /\ logic_nodes = {}
  /\ processed_edges = {} /\ nodes_to_process_constraints = {}
  /\ processed_nodes_constraints = {}
  /\ model = {} /\ status1 = "" /\ optimal_time = -1 /\ status2 = ""
  /\ takes = <<>> /\ result = NotReturned

SpecPrune == InitPrune /\ [][prune_requisites]_vars

\* ------------------------------------------------------------------ claims
\* The call has returned a schedule.
HasSchedule == pc = "done" /\ result.status \in {"Optimal", "Feasible"}

Targets == SeqRange(target_courses)

CourseCodes == {course_list[i].name : i \in 1 .. Len(course_list)}

\* The requirement tree of course c in the course mapping.
PrereqTree(c) ==
  course_list[CHOOSE i \in 1 .. Len(course_list) :
                course_list[i].name = c].prereqs

\* Semesters a course occupies: 2 for a year course, 1 otherwise.
Duration(c) == IF IsYearCode(c) THEN 2 ELSE 1

Occurrences(q, x) == Cardinality({i \in 1 .. Len(q) : q[i] = x})

\* The semesters of the returned schedule that list course c.
ListedIn(c) ==
  {s \in DOMAIN result.schedule : Occurrences(result.schedule[s], c) > 0}

\* The requirement tree evaluated at semester s under the assignment t: a
\* course leaf is done when started at some s_p with s_p + duration <= s, a
\* leaf that is no course of the mapping counts as satisfied, all needs
\* every child, any needs one.
RECURSIVE TreeTrue(_, _, _)
TreeTrue(node, t, s) ==
  IF ~node.list
    THEN IF node.str \in CourseCodes
           THEN /\ node.str \in DOMAIN t
                /\ \E s_p \in DOMAIN t[node.str] :
                     t[node.str][s_p] /\ s_p + Duration(node.str) <= s
           ELSE TRUE
    ELSE LET children == Tail(node.elems)
         IN IF node.elems[1].str = "all"
              THEN \A i \in 1 .. Len(children) : TreeTrue(children[i], t, s)
              ELSE \E i \in 1 .. Len(children) : TreeTrue(children[i], t, s)

\* The last semester occupied under the assignment t (0 when nothing is taken).
LatestFinish(t) ==
  Max({0} \cup {s + Duration(c) - 1 : <<c, s>> \in
                  {cs \in (DOMAIN t) \X Semesters : t[cs[1]][cs[2]]}})

NumStarted(t) ==
  Cardinality({cs \in (DOMAIN t) \X Semesters : t[cs[1]][cs[2]]})

\* C1: when the call returns Optimal or Feasible, every target is started in
\* exactly one semester of the horizon, every other relevant course in at
\* most one, and a half-year target is listed in exactly one semester of the
\* returned schedule.
C1_TargetsStartedOnce ==
  HasSchedule =>
    /\ \A c \in Targets : c \in course_nodes /\ NumTrue(takes[c]) = 1
    /\ \A c \in course_nodes \ Targets : NumTrue(takes[c]) <= 1
    /\ \A c \in Targets :
         Duration(c) = 1 =>
           /\ Cardinality(ListedIn(c)) = 1
           /\ \A s \in ListedIn(c) :
                takes[c][s] /\ Occurrences(result.schedule[s], c) = 1

\* A schedule with two targets, a relevant course that is taken and one that
\* is not.
C1_Witness ==
  /\ HasSchedule
  /\ Cardinality(Targets) = 2
  /\ \E c \in course_nodes \ Targets : NumTrue(takes[c]) = 1
  /\ \E c \in course_nodes \ Targets : NumTrue(takes[c]) = 0

C3_CapacityRespected ==
  HasSchedule =>
    \A s \in Semesters :
      /\ Cardinality({c \in course_nodes : takes[c][s]})
         + Cardinality({c \in course_nodes :
                          s > 0 /\ Duration(c) = 2 /\ takes[c][s - 1]})
           <= max_courses_per_semester
      /\ s \in DOMAIN result.schedule =>
           Len(result.schedule[s]) <= max_courses_per_semester

\* A semester filled to a limit of 2 by the second half of a year course and
\* a course started in it.
C3_Witness ==
  /\ HasSchedule
  /\ max_courses_per_semester = 2
  /\ \E s \in DOMAIN result.schedule :
       /\ Len(result.schedule[s]) = 2
       /\ \E c \in course_nodes : s > 0 /\ Duration(c) = 2 /\ takes[c][s - 1]
       /\ \E c \in course_nodes : takes[c][s]

\* C4: in every returned schedule a scheduled year course is listed in
\* exactly the two semesters t and t + 1, both inside the horizon, t is even
\* (Fall) and t is not the last semester.
C4_YearCourseSpan ==
  HasSchedule =>
    \A c \in course_nodes : \A s \in Semesters :
      (g.nodes[c].length = 10 /\ takes[c][s]) =>
        /\ s % 2 = 0
        /\ s # max_semesters - 1
        /\ s + 1 < max_semesters
        /\ ListedIn(c) = {s, s + 1}
        /\ \A k \in ListedIn(c) : Occurrences(result.schedule[k], c) = 1

\* A year course is scheduled in a horizon whose last semester is a Fall.
C4_Witness ==
  /\ HasSchedule
  /\ max_semesters = 3
  /\ \E c \in course_nodes : g.nodes[c].length = 10 /\ takes[c][0]

\* C5: whenever the call returns Optimal, no assignment admitted by the
\* constraints finishes earlier, and none that finishes as early starts fewer
\* courses.
C5_OptimalIsLexOptimal ==
  (pc = "done" /\ result.status = "Optimal") =>
    \A t \in BuiltModel :
      /\ LatestFinish(takes) <= LatestFinish(t)
      /\ LatestFinish(t) <= LatestFinish(takes) =>
           NumStarted(takes) <= NumStarted(t)

\* C6: after a request that returned a schedule, a request for the same
\* targets with limits at least as large is never Infeasible, and its proved
\* optimal finish is at most the proved optimal finish of the first.
C6_Monotone ==
  previous.called =>
    /\ status1 # INFEASIBLE
    /\ pc = "done" => result.status # "Infeasible"
    /\ (status1 = OPTIMAL /\ previous.status1 = OPTIMAL) =>
         optimal_time <= previous.optimal_time

\* The second request raises max_courses_per_semester and finishes earlier.
C6_Witness ==
  /\ pc = "done"
  /\ previous.called
  /\ max_courses_per_semester > previous.max_courses_per_semester
  /\ status1 = OPTIMAL /\ previous.status1 = OPTIMAL
  /\ result.status = "Optimal"
  /\ optimal_time < previous.optimal_time

\* C7: two runs of the identical request return the identical status and
\* schedule; stated for the runs in which the solver proved both phases
\* optimal, where only the choice among equally good assignments is left.
C7_RerunIdentical ==
  ( /\ pc = "done"
    /\ previous.called
    /\ previous.status1 = OPTIMAL /\ previous.result.status = "Optimal"
    /\ status1 = OPTIMAL /\ status2 = OPTIMAL ) =>
    result = previous.result

\* C8: when a target is no node of the graph the call returns
\* "Error: Target not in graph" without a schedule, and nothing of the
\* traversal, the variables, the constraints or the solver has been touched.
C8_MissingTargetRejected ==
  (\E i \in 1 .. Len(target_courses) : ~has_node(g, target_courses[i])) =>
    /\ pc \in {"call", "done"}
    /\ pc = "done" =>
         result = Returned("Error: Target not in graph", FALSE, None)
    /\ relevant_nodes = {} /\ nodes_to_process = <<>>
    /\ processed_for_reachability = {}
    /\ course_nodes = {} /\ logic_nodes = {}
    /\ processed_edges = {} /\ processed_nodes_constraints = {}
    /\ model = {} /\ status1 = "" /\ status2 = "" /\ takes = <<>>

\* The first target is a node, the second is not, and the call has returned.
C8_Witness ==
  /\ pc = "done"
  /\ Len(target_courses) = 2
  /\ has_node(g, target_courses[1])
  /\ ~has_node(g, target_courses[2])

\* The statuses the interface documents.
DocumentedStatuses ==
  {"Optimal", "Feasible", "Infeasible", "Error: Target not in graph",
   "Error: No relevant nodes", "Error: Phase 1 Failed",
   "Error: Infeasible Phase 2"}
  \cup {"Unknown/Error(" \o code \o ")" :
          code \in {OPTIMAL, FEASIBLE, INFEASIBLE, UNKNOWN}}

\* C9: every status the call returns is one of the documented statuses.
C9_StatusDocumented == pc = "done" => result.status \in DocumentedStatuses

\* C10: the call returns a schedule exactly when its status is Optimal or
\* Feasible; with any other status the schedule is None.
C10_ScheduleIffSolved ==
  pc = "done" =>
    /\ result.has <=> result.status \in {"Optimal", "Feasible"}
    /\ ~result.has => result.schedule = None

\* A Feasible return carrying a schedule.
C10_Witness ==
  /\ pc = "done"
  /\ result.status = "Feasible"
  /\ result.has
  /\ DOMAIN result.schedule # {}

\* C11: when phase 1 ended OPTIMAL or FEASIBLE with value optimal_time, some
\* assignment of the model finishes by optimal_time, so phase 2 is never
\* INFEASIBLE, the call never returns the phase-2 infeasibility status, and
\* the last semester occupied by the returned schedule is at most
\* optimal_time.
C11_Phase2Satisfiable ==
  /\ pc = "phase2" =>
       /\ status1 \in {OPTIMAL, FEASIBLE}
       /\ \E t \in model : FinishOf(t) <= optimal_time
  /\ (pc = "done" /\ status1 \in {OPTIMAL, FEASIBLE}) =>
       /\ status2 # INFEASIBLE
       /\ result.status # "Error - Infeasible Phase 2"
       /\ result.has =>
            /\ LatestFinish(takes) <= optimal_time
            /\ \A s \in DOMAIN result.schedule : s <= optimal_time

\* Phase 1 ended FEASIBLE with a value above the least finish, and the
\* schedule returned after phase 2 ends with a year course exactly there.
C11_Witness ==
  /\ pc = "done"
  /\ status1 = FEASIBLE
  /\ result.has
  /\ optimal_time = 2
  /\ LatestFinish(takes) = optimal_time
  /\ \E c \in course_nodes : Duration(c) = 2 /\ takes[c][0]

\* The sessions the course mapping gives course c.
SessionsOf(c) ==
  course_list[CHOOSE i \in 1 .. Len(course_list) :
                course_list[i].name = c].sessions

\* Course c can be started in no semester of the horizon: a half-year course
\* offered in neither a Fall (even) nor a Winter (odd) semester of it, a year
\* course for which the horizon has no Fall semester before its last one.
Unstartable(c) ==
  IF Duration(c) = 1
    THEN \A s \in Semesters :
           /\ s % 2 = 0 => FALL \notin SessionsOf(c)
           /\ s % 2 = 1 => WINTER \notin SessionsOf(c)
    ELSE \A s \in Semesters : s % 2 = 1 \/ s = max_semesters - 1

\* C12: when every target is a node and some target can be started in no
\* semester of the horizon, the model admits no assignment, phase 1 finds
\* none, the call returns no schedule, and the solver's verdict INFEASIBLE is
\* returned as the status Infeasible.
C12_UnstartableTargetInfeasible ==
  ( /\ pc = "done"
    /\ \A c \in Targets : has_node(g, c)
    /\ \E c \in Targets : Unstartable(c) ) =>
    /\ model = {}
    /\ status1 \notin {OPTIMAL, FEASIBLE}
    /\ status2 = ""
    /\ ~result.has /\ result.schedule = None
    /\ status1 = INFEASIBLE => result.status = "Infeasible"

\* A year course is the target of a request for a single semester, next to a
\* target that can be started, and the call returned Infeasible.
C12_Witness ==
  /\ pc = "done"
  /\ max_semesters = 1
  /\ \E c \in Targets : Duration(c) = 2 /\ has_node(g, c) /\ Unstartable(c)
  /\ \E c \in Targets : has_node(g, c) /\ ~Unstartable(c)
  /\ result = Returned("Infeasible", FALSE, None)

\* C13: on every input (max_semesters 0, no targets, a node without its
\* attributes included) the call ends by returning a (status, schedule) pair
\* with a status and, unless a schedule was built, None; no exception raised
\* while the model is built, solved or read leaves the call.
C13_AlwaysReturnsPair ==
  <>[](/\ pc = "done"
       /\ result.status # ""
       /\ result.has \/ result.schedule = None)

\* A request for 0 semesters on a graph that holds the target: building or
\* solving the model raised and the call returned ("Error", None).
C13_Witness ==
  /\ pc = "done"
  /\ max_semesters = 0
  /\ target_courses # <<>>
  /\ result = Returned("Error", FALSE, None)

Encoded == pc = "phase2" \/ (pc = "done" /\ status1 # "" /\ status2 = "")

\* C15: a leaf that is no course of the mapping counts as true: every
\* assignment that meets the constraints on single courses and the capacity,
\* and in which the requirement tree of every started course, with such
\* leaves true, holds at its start semester, is admitted by the encoded
\* constraints.
C15_NonItemLeafTrue ==
  Encoded =>
    \A t \in RowProduct(course_nodes) :
      ( /\ Capacity(t)
        /\ \A c \in course_nodes : \A s \in Semesters :
             t[c][s] => TreeTrue(PrereqTree(c), t, s) ) =>
      Admitted(t)

\* g.in_degree(n) and g.out_degree(n)
InDegree(n) == Cardinality({i \in 1 .. Len(g.edges) : g.edges[i][2] = n})
OutDegree(n) == Cardinality({i \in 1 .. Len(g.edges) : g.edges[i][1] = n})

LogicNodesOf(G) == {n \in DOMAIN G.nodes : G.nodes[n].logic}

\* C16: in the graph built from the course mapping every logic node has at
\* least two incoming edges (a list left with one child or none, once the
\* leaves that are no course are removed, has no logic node).
C16_GatesHaveTwoChildren ==
  \A n \in LogicNodesOf(g) : InDegree(n) >= 2

\* The lists of a requisite list for which parse_requisite_list creates a
\* logic node: those with two or more children, at any depth.
RECURSIVE GateLists(_)
GateLists(node) ==
  IF ~node.list THEN 0
  ELSE LET nested == {i \in 2 .. Len(node.elems) : node.elems[i].list}
           Sum[S \in SUBSET nested] ==
             IF S = {} THEN 0
             ELSE LET i == CHOOSE x \in S : TRUE
                  IN GateLists(node.elems[i]) + Sum[S \ {i}]
       IN (IF Len(node.elems) >= 3 THEN 1 ELSE 0) + Sum[nested]

RECURSIVE GatesCreated(_)
GatesCreated(i) ==
  IF i > Len(course_list) THEN 0
  ELSE GateLists(course_list[i].prereqs) + GatesCreated(i + 1)

\* C17: within one build every logic node created has an identifier of its
\* own (as many logic nodes as lists that create one, none named like a
\* course), hence exactly one outgoing edge, to its consumer.
C17_GateIdsDistinct ==
  /\ Cardinality(LogicNodesOf(g)) = GatesCreated(1)
  /\ LogicNodesOf(g) \cap CourseCodes = {}
  /\ \A n \in LogicNodesOf(g) : OutDegree(n) = 1

\* The nodes from which a node of S is reachable along the edges of g, S
\* included: the least set closed under taking the source of an edge.
RECURSIVE Ancestors(_)
Ancestors(S) ==
  LET S2 == S \cup {g.edges[i][1] :
                     i \in {j \in 1 .. Len(g.edges) : g.edges[j][2] \in S}}
  IN IF S2 = S THEN S ELSE Ancestors(S2)

\* The reachability loop has ended.
Traversed ==
  \/ pc = "reach" /\ nodes_to_process = <<>>
  \/ pc \in {"emit", "phase2"}
  \/ pc = "done" /\ result.status # "Error: Target not in graph"

\* C18: when every target is a node, the traversal ends with relevant_nodes
\* the set of nodes from which a target is reachable, targets included; a
\* node is added and expanded once (a node taken from the deque a second time
\* adds nothing to the deque), and course_nodes and logic_nodes are disjoint
\* and together make up relevant_nodes.
C18_RelevantIsAncestors ==
  /\ [](Traversed =>
          /\ relevant_nodes = Ancestors(Targets)
          /\ processed_for_reachability = relevant_nodes
          /\ pc # "reach" /\ relevant_nodes # {} =>
               /\ course_nodes \cap logic_nodes = {}
               /\ course_nodes \cup logic_nodes = relevant_nodes)
  /\ [][ (pc = "reach" /\ nodes_to_process # <<>>) =>
           IF Head(nodes_to_process) \in processed_for_reachability
             THEN /\ nodes_to_process' = Tail(nodes_to_process)
                  /\ relevant_nodes' = relevant_nodes
             ELSE /\ relevant_nodes' =
                       relevant_nodes \cup {Head(nodes_to_process)}
                  /\ Cardinality(relevant_nodes') =
                       Cardinality(relevant_nodes) + 1 ]_vars

\* The traversal from a target below a gate has ended: courses and a gate
\* are relevant, another node of the graph is not.
C18_Witness ==
  /\ pc = "emit"
  /\ logic_nodes # {}
  /\ Cardinality(course_nodes) >= 3
  /\ relevant_nodes # DOMAIN g.nodes

\* The values act of active[., s] that satisfy, with the takes values t,
\* every emitted constraint mentioning semester s.
ActiveValues(t, s) ==
  {act \in [logic_nodes -> BOOLEAN] :
     \A e \in processed_edges : EdgeAt(e[1], e[2], s, t, act)}

\* The done-by-s indicator of a child p of a gate: of a course, that it was
\* started at some s_p with s_p + duration <= s; of a gate, its own active.
ChildDone(p, t, s, act) ==
  IF p \in logic_nodes THEN act[p]
  ELSE \E s_p \in Semesters : t[p][s_p] /\ s_p + Duration(p) <= s

\* The children of gate v.
Children(v) == {g.edges[i][1] : i \in {j \in 1 .. Len(g.edges) : g.edges[j][2] = v}}

\* C19: in every assignment satisfying the encoded constraints, for every
\* relevant 'all' gate with a child and every s in 0 .. max_semesters,
\* active[g, s] is true exactly when every child is done by s.
C19_AllGateIff ==
  Encoded =>
    \A t \in BuiltModel : \A s \in 0 .. max_semesters :
      \A act \in ActiveValues(t, s) :
        \A v \in logic_nodes :
          (g.nodes[v].type = "all" /\ Children(v) # {}) =>
            (act[v] <=> \A p \in Children(v) : ChildDone(p, t, s, act))

\* C20: in every assignment satisfying the encoded constraints, for every
\* relevant 'any' gate with a child and every s in 0 .. max_semesters,
\* active[g, s] is true exactly when some child is done by s.
C20_AnyGateIff ==
  Encoded =>
    \A t \in BuiltModel : \A s \in 0 .. max_semesters :
      \A act \in ActiveValues(t, s) :
        \A v \in logic_nodes :
          (g.nodes[v].type = "any" /\ Children(v) # {}) =>
            (act[v] <=> \E p \in Children(v) : ChildDone(p, t, s, act))

\* An 'any' gate with a year course and an 'all' gate as children is active
\* at semester 2 in an admitted assignment through the year course alone.
C20_Witness ==
  /\ Encoded
  /\ \E t \in BuiltModel : \E act \in ActiveValues(t, 2) :
       \E v \in logic_nodes :
         /\ g.nodes[v].type = "any"
         /\ act[v]
         /\ \E p \in Children(v) \cap logic_nodes : ~act[p]
         /\ \E p \in Children(v) \ logic_nodes :
              Duration(p) = 2 /\ ChildDone(p, t, 2, act)

\* C21: in every assignment satisfying the encoded constraints, every
\* relevant gate without an incoming edge has active[gate, s] true at every
\* s in 0 .. max_semesters.
C21_ChildlessGateActive ==
  Encoded =>
    \A t \in BuiltModel : \A s \in 0 .. max_semesters :
      \A act \in ActiveValues(t, s) :
        \A v \in logic_nodes : Children(v) = {} => act[v]

\* C22: in every returned schedule a half-year course is started only in a
\* semester whose type (even index Fall, odd index Winter) is among the
\* sessions of the course, and a year course only in a semester of even
\* index whatever its sessions; every assignment the model admits has takes
\* false at each semester that breaks this rule.
C22_StartKindAllowed ==
  /\ HasSchedule =>
       \A c \in course_nodes : \A s \in Semesters :
         takes[c][s] =>
           IF Duration(c) = 2 THEN s % 2 = 0
           ELSE (IF s % 2 = 0 THEN FALL ELSE WINTER) \in SessionsOf(c)
  /\ pc = "phase2" =>
       \A t \in model : \A c \in course_nodes : \A s \in Semesters :
         ~(IF Duration(c) = 2 THEN s % 2 = 0
           ELSE (IF s % 2 = 0 THEN FALL ELSE WINTER) \in SessionsOf(c))
           => ~t[c][s]

\* A schedule with a course offered in Winter only started at semester 1,
\* a year course started at semester 0 and a course offered in both started
\* in a Fall.
C22_Witness ==
  /\ HasSchedule
  /\ \E c \in course_nodes :
       Duration(c) = 1 /\ SessionsOf(c) = {WINTER} /\ takes[c][1]
  /\ \E c \in course_nodes : Duration(c) = 2 /\ takes[c][0]
  /\ \E c \in course_nodes :
       Duration(c) = 1 /\ SessionsOf(c) = {FALL, WINTER} /\ takes[c][2]

\* The edges of g from a relevant course to a relevant course.
CourseEdges ==
  {e \in {g.edges[i] : i \in 1 .. Len(g.edges)} :
     e[1] \in course_nodes /\ e[2] \in course_nodes}

\* C23: for every edge u -> v between relevant courses, in every returned
\* schedule in which v is started at s_v, u is started at some s_u of the
\* horizon with s_u + duration(u) <= s_v; v is not started at an s_v for
\* which the horizon has no such s_u (s_v = 0, or s_v = 1 for a year
\* course u).
C23_DirectEdgeOrder ==
  HasSchedule =>
    \A e \in CourseEdges : \A s_v \in Semesters :
      /\ takes[e[2]][s_v] =>
           \E s_u \in Semesters :
             takes[e[1]][s_u] /\ s_u + Duration(e[1]) <= s_v
      /\ (\A s_u \in Semesters : s_u + Duration(e[1]) > s_v) =>
           ~takes[e[2]][s_v]

\* A schedule in which a course starts at semester 2, right after the year
\* course it depends on directly.
C23_Witness ==
  /\ HasSchedule
  /\ \E e \in CourseEdges :
       Duration(e[1]) = 2 /\ takes[e[1]][0] /\ takes[e[2]][2]

\* The relevant courses that occupy semester s under the assignment t:
\* started at s, or year courses started at s - 1.
Occupying(t, s) ==
  {c \in relevant_nodes \ logic_nodes :
     \/ s \in Semesters /\ t[c][s]
     \/ s - 1 \in Semesters /\ t[c][s - 1] /\ Duration(c) = 2}

\* C24: the returned schedule is the occupancy map of the solved assignment:
\* its keys are the semesters that some relevant course occupies, each at
\* most the last finishing semester and so below max_semesters; a key maps
\* to the list, in ascending order and without repetition, of the relevant
\* courses (no logic node, no node outside relevant_nodes) started in that
\* semester or year courses started the semester before.
C24_ScheduleIsOccupancy ==
  HasSchedule =>
    /\ DOMAIN result.schedule =
         {s \in 0 .. max_semesters : Occupying(takes, s) # {}}
    /\ \A s \in DOMAIN result.schedule :
         LET q == result.schedule[s]
         IN /\ SeqRange(q) = Occupying(takes, s)
            /\ Len(q) = Cardinality(Occupying(takes, s))
            /\ \A i \in 1 .. Len(q) - 1 : StrLess(q[i], q[i + 1])
            /\ SeqRange(q) \subseteq relevant_nodes \cap CourseCodes
            /\ SeqRange(q) \cap LogicNodesOf(g) = {}
            /\ s <= LatestFinish(takes)
            /\ s < max_semesters

\* A schedule from a graph with a relevant gate, in which a semester lists
\* the second half of a year course and a course started in it, in another
\* order than they were found in.
C24_Witness ==
  /\ HasSchedule
  /\ logic_nodes # {}
  /\ \E s \in DOMAIN result.schedule :
       /\ Len(result.schedule[s]) = 2
       /\ \E c \in course_nodes : Duration(c) = 2 /\ takes[c][s - 1]
       /\ result.schedule[s] # schedule_display(takes, s)

\* The lists nested in a requisite list, at any depth.
RECURSIVE NestedLists(_)
NestedLists(node) ==
  IF ~node.list THEN {}
  ELSE UNION {{node.elems[i]} \cup NestedLists(node.elems[i]) :
                i \in {j \in 1 .. Len(node.elems) : node.elems[j].list}}

\* The strings of a requisite list, at any depth.
RECURSIVE StringLeaves(_)
StringLeaves(node) ==
  IF ~node.list THEN {node.str}
  ELSE UNION {StringLeaves(node.elems[i]) : i \in 1 .. Len(node.elems)}

\* The children of a list: its elements other than the operator.
NumChildren(node) ==
  Cardinality({i \in 1 .. Len(node.elems) :
                 node.elems[i].list \/ node.elems[i].str \notin {"any", "all"}})

\* C25 as stated: after pruning, every string left is 'any', 'all', a valid
\* course or a key of VALID_REQUISITES, no nested list is an operator alone,
\* and no nested list has exactly one child.
C25_NoSingleChildList ==
  pc = "pruned" =>
    /\ StringLeaves(prereq_list) \subseteq
         {"any", "all"} \cup valid_courses \cup VALID_REQUISITES
    /\ \A l \in NestedLists(prereq_list) : NumChildren(l) # 0
    /\ \A l \in NestedLists(prereq_list) : NumChildren(l) # 1

\* C25, amended: after pruning, every string left is 'any', 'all', a valid
\* course or a key of VALID_REQUISITES, and every nested list, at any depth,
\* has two elements or more: an operator and at least one child. (A nested
\* list left with one child stays a list.)
C25_PrunedTree ==
  pc = "pruned" =>
    /\ StringLeaves(prereq_list) \subseteq
         {"any", "all"} \cup valid_courses \cup VALID_REQUISITES
    /\ \A l \in NestedLists(prereq_list) :
         Len(l.elems) >= 2 /\ NumChildren(l) >= 1

\* A pruned list that kept a nested list with a single child, itself a
\* list with a valid course and a key of VALID_REQUISITES.
C25_Witness ==
  /\ pc = "pruned"
  /\ \E l \in NestedLists(prereq_list) :
       /\ NumChildren(l) = 1
       /\ \E m \in NestedLists(l) : StringLeaves(m) = {"any", "AH1", FYC}

\* The nodes from which a node of S is reachable along edges between
\* courses only, S included.
RECURSIVE CourseAncestors(_)
CourseAncestors(S) ==
  LET S2 == S \cup {g.edges[i][1] :
                     i \in {j \in 1 .. Len(g.edges) :
                              /\ g.edges[j][2] \in S
                              /\ ~g.nodes[g.edges[j][1]].logic
                              /\ ~g.nodes[g.edges[j][2]].logic}}
  IN IF S2 = S THEN S ELSE CourseAncestors(S2)

\* Course c lies on a cycle of edges between courses.
OnCourseCycle(c) ==
  /\ has_node(g, c)
  /\ ~g.nodes[c].logic
  /\ \E i \in 1 .. Len(g.edges) :
       /\ g.edges[i][2] = c
       /\ ~g.nodes[g.edges[i][1]].logic
       /\ c \in CourseAncestors({g.edges[i][1]})

\* C26: on a graph with a prerequisite cycle or a self-loop the call ends;
\* the reachability loop adds and expands a node once, the constraint loop
\* takes each relevant node once and emits the constraints of an edge once;
\* when every target is a node and a target lies on a cycle of courses, the
\* model admits no assignment, phase 1 finds none, no schedule is returned,
\* and the solver's verdict INFEASIBLE is returned as the status Infeasible.
C26_CyclesTerminateInfeasible ==
  /\ <>[](pc = "done")
  /\ [][ /\ (pc = "reach" /\ nodes_to_process # <<>>) =>
              IF Head(nodes_to_process) \in processed_for_reachability
                THEN /\ processed_for_reachability' = processed_for_reachability
                     /\ Len(nodes_to_process') < Len(nodes_to_process)
                ELSE /\ processed_for_reachability' =
                          processed_for_reachability
                          \cup {Head(nodes_to_process)}
                     /\ Cardinality(processed_for_reachability') =
                          Cardinality(processed_for_reachability) + 1
         /\ (pc = "emit" /\ pc' = "emit") =>
              \E v \in relevant_nodes \ processed_nodes_constraints :
                /\ processed_nodes_constraints' =
                     processed_nodes_constraints \cup {v}
                /\ nodes_to_process_constraints' =
                     nodes_to_process_constraints \ {v}
                /\ processed_edges' \ processed_edges =
                     {e \in {g.edges[i] : i \in 1 .. Len(g.edges)} :
                        e[2] = v /\ e[1] \in relevant_nodes}
                /\ \A e \in processed_edges : e[2] # v ]_vars
  /\ []( ( /\ pc = "done"
           /\ \A c \in Targets : has_node(g, c)
           /\ \E c \in Targets : OnCourseCycle(c) ) =>
         /\ model = {}
         /\ status1 \notin {OPTIMAL, FEASIBLE}
         /\ ~result.has /\ result.schedule = None
         /\ status1 = INFEASIBLE => result.status = "Infeasible" )

\* A call for a target on a cycle of three courses has returned Infeasible
\* after both loops went round the cycle.
C26_Witness ==
  /\ pc = "done"
  /\ Cardinality(processed_edges) = 3
  /\ processed_nodes_constraints = relevant_nodes
  /\ \A c \in relevant_nodes : OnCourseCycle(c)
  /\ result = Returned("Infeasible", FALSE, None)

====
